---- MODULE Spec2Model ----
(***************************************************************************)
(* Model of the flight-record cleaning pipeline of                         *)
(* src/flights_project/part4/part4.py (clean_flights_data and its helpers  *)
(* time_to_timedelta, fix_flight_data, check_flight_consistency).          *)
(*                                                                         *)
(* A DataFrame is a sequence of rows; a row is a record with one field per *)
(* column.  A cell is a tagged value [k, v]:                               *)
(*   k = "num"    a number v (packed time, minutes, day index, offset)     *)
(*   k = "ts"     a timestamp, v minutes after 2023-01-01T00:00            *)
(*   k = "str"    a non-numeric text                                       *)
(*   k = "null"   pandas' missing value (None / NaN / NaT)                 *)
(*   k = "absent" the column does not exist in the frame                   *)
(* The calendar date (year, month, day) is one cell ymd holding the day    *)
(* index counted from 2023-01-01.                                          *)
(***************************************************************************)
EXTENDS Integers, Sequences, FiniteSets, TLC

VARIABLES
    table,      \* the flights table of the database the connection points to
    flights,    \* the local DataFrame `flights` of clean_flights_data
    prev,       \* value of `flights` before the statement executed last
    pc,         \* position inside clean_flights_data
    pass,       \* number of the current run of clean_flights_data on this connection
    verbose,    \* the verbose argument
    report,     \* what the verbose branches printed
    source,     \* the flights table of the database at db_path
    cm,         \* position inside utils.get_db_connection
    conn,       \* the sqlite connection to the temporary copy
    temp_file,  \* the temporary database file
    exc,        \* the exception that left the try block, if any
    fn_in,      \* the record a function under study is called with
    fn_row,     \* that record as the function leaves it
    fn_out,     \* the value the function returned
    fn_pc       \* whether the function under study has returned

vars == <<table, flights, prev, pc, pass, verbose, report,
          source, cm, conn, temp_file, exc, fn_in, fn_row, fn_out, fn_pc>>

\* the state of get_db_connection
cmvars == <<source, cm, conn, temp_file, exc>>

\* the state of a single function call
fnvars == <<fn_in, fn_row, fn_out, fn_pc>>

\* the state of clean_flights_data
pipevars == <<table, flights, prev, pc, pass, verbose, report>>

----------------------------------------------------------------------------
(* Bounds *)

MaxRows == 2        \* rows in the flights table
MaxPass == 2        \* runs of clean_flights_data on one connection

----------------------------------------------------------------------------
(* Cells *)

Null == [k |-> "null", v |-> 0]
Absent == [k |-> "absent", v |-> 0]
Str == [k |-> "str", v |-> 0]
Num(n) == [k |-> "num", v |-> n]
Ts(m) == [k |-> "ts", v |-> m]

IsNull(c) == c.k = "null"
NotNull(c) == c.k # "null"

Abs(n) == IF n < 0 THEN -n ELSE n

MinutesPerDay == 1440

RTolInv == 100000

\* a strict absolute test: a difference equal to the tolerance is not close
IsCloseStrict(a, b, atol) ==
    /\ a.k = "num"
    /\ b.k = "num"
    /\ Abs(a.v - b.v) < atol

\* numpy.isclose(a, b, atol=atol) with the default rtol = 1e-05:
\* |a - b| <= atol + rtol * |b|, false when either side is NaN.

IsClose(a, b, atol) ==
    /\ a.k = "num"
    /\ b.k = "num"
    /\ RTolInv * Abs(a.v - b.v) <= RTolInv * atol + Abs(b.v)

\* Timestamp comparisons; any comparison with NaT is False.
TsLt(a, b) == a.k = "ts" /\ b.k = "ts" /\ a.v < b.v
TsLe(a, b) == a.k = "ts" /\ b.k = "ts" /\ a.v <= b.v
TsGt(a, b) == TsLt(b, a)

\* Series.dt.hour; NaN for NaT, and NaN compares False with everything.
Hour(t) == (t.v \div 60) % 24
HourLt(t, h) == t.k = "ts" /\ Hour(t) < h
HourGt(t, h) == t.k = "ts" /\ Hour(t) > h

\* (a - b).total_seconds() / 60
DiffMinutes(a, b) == IF a.k = "ts" /\ b.k = "ts" THEN Num(a.v - b.v) ELSE Null

\* t + timedelta(minutes=m)
AddMinutes(t, m) == IF t.k = "ts" /\ m.k = "num" THEN Ts(t.v + m.v) ELSE Null

----------------------------------------------------------------------------
(* TimeCodec *)

\* a decoding that takes the minutes modulo 60
time_to_timedelta_sexagesimal(time) ==
    IF IsNull(time) THEN Null
    ELSE IF time.k = "num"
         THEN Num((time.v \div 100) * 60 + (time.v % 60))
         ELSE Null

time_to_timedelta(time) ==
    IF IsNull(time) THEN Null
    ELSE IF time.k = "num"
         THEN Num((time.v \div 100) * 60 + (time.v % 100))
         ELSE Null      \* int(float(time)) raised ValueError / TypeError

----------------------------------------------------------------------------
(* RolloverCorrector: the three .loc[...] += timedelta(days=1) statements *)

AddDay(t) == Ts(t.v + MinutesPerDay)

\* the first rule with the hour bound off by one (hour <= 6)
RolloverDepRowLoose(r) ==
    IF /\ HourLt(r.dep_time, 7)
       /\ HourGt(r.sched_dep_time, 18)
       /\ TsLt(r.dep_time, r.sched_dep_time)
    THEN [r EXCEPT !.dep_time = AddDay(r.dep_time)]
    ELSE r

RolloverDepRow(r) ==
    IF /\ HourLt(r.dep_time, 6)
       /\ HourGt(r.sched_dep_time, 18)
       /\ TsLt(r.dep_time, r.sched_dep_time)
    THEN [r EXCEPT !.dep_time = AddDay(r.dep_time)]
    ELSE r

\* the second rule comparing against the actual departure
RolloverSchedArrRowActual(r) ==
    IF /\ HourLt(r.sched_arr_time, 6)
       /\ HourGt(r.sched_dep_time, 18)
       /\ TsLt(r.sched_arr_time, r.dep_time)
    THEN [r EXCEPT !.sched_arr_time = AddDay(r.sched_arr_time)]
    ELSE r

RolloverSchedArrRow(r) ==
    IF /\ HourLt(r.sched_arr_time, 6)
       /\ HourGt(r.sched_dep_time, 18)
       /\ TsLt(r.sched_arr_time, r.sched_dep_time)
    THEN [r EXCEPT !.sched_arr_time = AddDay(r.sched_arr_time)]
    ELSE r

\* the third rule without its test of the departure hour
RolloverArrRowAnyDeparture(r) ==
    IF /\ HourLt(r.arr_time, 6)
       /\ TsLt(r.arr_time, r.dep_time)
    THEN [r EXCEPT !.arr_time = AddDay(r.arr_time)]
    ELSE r

RolloverArrRow(r) ==
    IF /\ HourLt(r.arr_time, 6)
       /\ HourGt(r.dep_time, 18)
       /\ TsLt(r.arr_time, r.dep_time)
    THEN [r EXCEPT !.arr_time = AddDay(r.arr_time)]
    ELSE r

\* the filter with >= in place of >
SchedPairOkLoose(r) == TsLe(r.sched_dep_time, r.sched_arr_time)

\* flights[flights['sched_arr_time'] > flights['sched_dep_time']]
SchedPairOk(r) == TsGt(r.sched_arr_time, r.sched_dep_time)

----------------------------------------------------------------------------
(* ConsistencyRepairer *)

\* the repair with air_time compared against the arrival read at the start
\* (the local arr) instead of row['arr_time']
fix_flight_data_stale_arr(row) ==
    LET sched_dep == row.sched_dep_time
        dep == row.dep_time
        sched_arr == row.sched_arr_time
        arr == row.arr_time
        air_time == row.air_time
        dep_delay == row.dep_delay
        arr_delay == row.arr_delay
        correct_dep_delay == DiffMinutes(dep, sched_dep)
        row1 == IF ~IsClose(dep_delay, correct_dep_delay, 2)
                THEN [row EXCEPT !.dep_delay = correct_dep_delay]
                ELSE row
        row2 == IF TsLe(arr, dep) /\ NotNull(sched_arr) /\ NotNull(dep_delay)
                THEN [row1 EXCEPT !.arr_time = AddMinutes(sched_arr, dep_delay)]
                ELSE row1
        actual_air_time == DiffMinutes(arr, dep)
        row3 == IF ~IsClose(actual_air_time, air_time, 5)
                THEN [row2 EXCEPT !.air_time = actual_air_time]
                ELSE row2
        correct_arr_delay == DiffMinutes(arr, sched_arr)
        row4 == IF ~IsClose(arr_delay, correct_arr_delay, 2)
                THEN [row3 EXCEPT !.arr_delay = correct_arr_delay]
                ELSE row3
    IN row4

\* the repair with the arrival rebuilt from the delay as repaired by the
\* first fix (row['dep_delay']) instead of the local read before it
fix_flight_data_repaired_delay(row) ==
    LET sched_dep == row.sched_dep_time
        dep == row.dep_time
        sched_arr == row.sched_arr_time
        arr == row.arr_time
        air_time == row.air_time
        dep_delay == row.dep_delay
        arr_delay == row.arr_delay
        correct_dep_delay == DiffMinutes(dep, sched_dep)
        row1 == IF ~IsClose(dep_delay, correct_dep_delay, 2)
                THEN [row EXCEPT !.dep_delay = correct_dep_delay]
                ELSE row
        row2 == IF TsLe(arr, dep) /\ NotNull(sched_arr) /\ NotNull(row1.dep_delay)
                THEN [row1 EXCEPT !.arr_time = AddMinutes(sched_arr, row1.dep_delay)]
                ELSE row1
        actual_air_time == DiffMinutes(row2.arr_time, row2.dep_time)
        row3 == IF ~IsClose(actual_air_time, air_time, 5)
                THEN [row2 EXCEPT !.air_time = actual_air_time]
                ELSE row2
        correct_arr_delay == DiffMinutes(arr, sched_arr)
        row4 == IF ~IsClose(arr_delay, correct_arr_delay, 2)
                THEN [row3 EXCEPT !.arr_delay = correct_arr_delay]
                ELSE row3
    IN row4

fix_flight_data(row) ==
    LET sched_dep == row.sched_dep_time
        dep == row.dep_time
        sched_arr == row.sched_arr_time
        arr == row.arr_time
        air_time == row.air_time
        dep_delay == row.dep_delay
        arr_delay == row.arr_delay
        \* Fix dep_delay (if inconsistent)
        correct_dep_delay == DiffMinutes(dep, sched_dep)
        row1 == IF ~IsClose(dep_delay, correct_dep_delay, 2)
                THEN [row EXCEPT !.dep_delay = correct_dep_delay]
                ELSE row
        \* Fix inconsistent arrival times: the local dep_delay, read before
        \* the first fix, is the one added to sched_arr
        row2 == IF TsLe(arr, dep) /\ NotNull(sched_arr) /\ NotNull(dep_delay)
                THEN [row1 EXCEPT !.arr_time = AddMinutes(sched_arr, dep_delay)]
                ELSE row1
        \* Fix incorrect air_time values
        actual_air_time == DiffMinutes(row2.arr_time, row2.dep_time)
        row3 == IF ~IsClose(actual_air_time, air_time, 5)
                THEN [row2 EXCEPT !.air_time = actual_air_time]
                ELSE row2
        \* Fix inconsistent arr_delay: the local arr, read before the
        \* arrival fix, is the one compared
        correct_arr_delay == DiffMinutes(arr, sched_arr)
        row4 == IF ~IsClose(arr_delay, correct_arr_delay, 2)
                THEN [row3 EXCEPT !.arr_delay = correct_arr_delay]
                ELSE row3
    IN row4

----------------------------------------------------------------------------
(* ConsistencyValidator *)

\* a validator without the scheduled times check
check_flight_consistency_unscheduled(row) ==
    LET dep == row.dep_time
        arr == row.arr_time
        air_time == row.air_time
        actual_air_time == DiffMinutes(arr, dep)
    IN IF TsLe(arr, dep) THEN FALSE
       ELSE IF ~IsClose(actual_air_time, air_time, 5) THEN FALSE
       ELSE TRUE

check_flight_consistency(row) ==
    LET sched_dep == row.sched_dep_time
        dep == row.dep_time
        sched_arr == row.sched_arr_time
        arr == row.arr_time
        air_time == row.air_time
        actual_air_time == DiffMinutes(arr, dep)
    IN IF TsLe(arr, dep) THEN FALSE
       ELSE IF TsLe(sched_arr, sched_dep) THEN FALSE
       ELSE IF ~IsClose(actual_air_time, air_time, 5) THEN FALSE
       ELSE TRUE

Bool(b) == Num(IF b THEN 1 ELSE 0)

----------------------------------------------------------------------------
(* LocalTimeResolver *)

\* airports.csv: faa -> tz.  tz is kept in half hours so that 5.5 is a
\* number; "ZZZ" is an airport code absent from the file.
Airports ==
    [JFK |-> Num(-10), LAX |-> Num(-16), DEL |-> Num(11), BAD |-> Str, NUL |-> Null]

\* utc_offset_to_tz: float offset -> whole hours
UtcOffsets == {-10, -9, -8, -7, -6, -5, -4, 1, 8}

\* a conversion that takes the whole hours of any numeric tz value
convert_timezone_any(value) ==
    IF value.k = "num"
    THEN Num(value.v \div 2)
    ELSE Null

convert_timezone(value) ==
    IF value.k = "num" /\ value.v % 2 = 0 /\ (value.v \div 2) \in UtcOffsets
    THEN Num(value.v \div 2)
    ELSE Null       \* .get(value, None), or ValueError -> None

\* dict(zip(airports['faa'], airports['tz_offset'])) after dropna(subset=['tz_offset'])
timezone_dict ==
    [a \in {x \in DOMAIN Airports : NotNull(convert_timezone(Airports[x]))}
        |-> convert_timezone(Airports[a])]

\* Series.map(timezone_dict)
MapTz(code) == IF code \in DOMAIN timezone_dict THEN timezone_dict[code] ELSE Null

HasOffsets(r) == NotNull(MapTz(r.origin)) /\ NotNull(MapTz(r.dest))

\* the local arrival with the two offsets exchanged
LocalArrRowSwapped(r) ==
    LET dep_offset == MapTz(r.origin)
        arr_offset == MapTz(r.dest)
    IN [r EXCEPT !.dep_offset = dep_offset,
                 !.arr_offset = arr_offset,
                 !.local_arr_time =
                     IF r.arr_time.k = "ts"
                     THEN Ts(r.arr_time.v + 60 * dep_offset.v - 60 * arr_offset.v)
                     ELSE Null]

LocalArrRow(r) ==
    LET dep_offset == MapTz(r.origin)
        arr_offset == MapTz(r.dest)
    IN [r EXCEPT !.dep_offset = dep_offset,
                 !.arr_offset = arr_offset,
                 !.local_arr_time =
                     IF r.arr_time.k = "ts"
                     THEN Ts(r.arr_time.v - 60 * dep_offset.v + 60 * arr_offset.v)
                     ELSE Null]

----------------------------------------------------------------------------
(* Frames *)

TimeCols == {"sched_dep_time", "dep_time", "sched_arr_time", "arr_time"}

\* A row as SELECT * FROM flights returns it from the source database.
RawRow(ymd, sd, d, sa, a, dd, ad, at, o, de, fl) ==
    [ymd |-> ymd, sched_dep_time |-> sd, dep_time |-> d, sched_arr_time |-> sa,
     arr_time |-> a, dep_delay |-> dd, arr_delay |-> ad, air_time |-> at,
     origin |-> o, dest |-> de, flight |-> fl,
     date |-> Absent, is_consistent |-> Absent, dep_offset |-> Absent,
     arr_offset |-> Absent, local_arr_time |-> Absent]

CellCols ==
    {"ymd", "sched_dep_time", "dep_time", "sched_arr_time", "arr_time",
     "dep_delay", "arr_delay", "air_time", "date", "is_consistent",
     "dep_offset", "arr_offset", "local_arr_time"}

\* DataFrame.dropna keeps the rows without a missing value in any column
HasNoNull(r) == \A c \in CellCols : NotNull(r[c])

Range(f) == {f[i] : i \in DOMAIN f}

\* drop_duplicates whose result is thrown away
DropDupNone(f) == f

\* DataFrame.drop_duplicates keeps the first of each set of equal rows
RECURSIVE DropDup(_)
DropDup(f) ==
    IF f = <<>> THEN <<>>
    ELSE LET n == Len(f)
             init == DropDup(SubSeq(f, 1, n - 1))
         IN IF f[n] \in Range(init) THEN init ELSE Append(init, f[n])

\* DataFrame.duplicated().sum()
CountDuplicated(f) == Len(f) - Len(DropDup(f))

\* convert_times_to_datetime: df['date'] = pd.to_datetime({year, month, day})
DateRow(r) ==
    [r EXCEPT !.date = IF r.ymd.k = "num" THEN Ts(r.ymd.v * MinutesPerDay) ELSE Null]

\* flights[col] = flights['date'] + flights[col].apply(time_to_timedelta)
DecodeRow(r) ==
    [c \in DOMAIN r |->
        IF c \in TimeCols THEN AddMinutes(r.date, time_to_timedelta(r[c])) ELSE r[c]]

\* a time column none of whose values decodes
AllNaT(f, c) == \A i \in DOMAIN f : IsNull(time_to_timedelta(f[i][c]))

\* a repair that reads the stored delay of the first record of the batch
FixFrameShared(f) ==
    [i \in DOMAIN f |->
        fix_flight_data([f[i] EXCEPT !.dep_delay = f[1].dep_delay])]

FixFrame(f) == [i \in DOMAIN f |-> fix_flight_data(f[i])]

FlagRow(r) == [r EXCEPT !.is_consistent = Bool(check_flight_consistency(r))]

DropFlagRow(r) == [r EXCEPT !.is_consistent = Absent]

CountInconsistent(f) == Cardinality({i \in DOMAIN f : f[i].is_consistent = Bool(FALSE)})

NoReport == [deleted_rows |-> Absent, total_rows |-> Absent,
             duplicates |-> Absent, inconsistent |-> Absent]

----------------------------------------------------------------------------
(* Inputs *)

\* The row of the end-to-end scenario: 2023-01-01, sched_dep 2300,
\* dep 0130, sched_arr 0200, arr 0350, dep_delay 5, air_time 60.
ScenarioRow ==
    RawRow(Num(0), Num(2300), Num(130), Num(200), Num(350),
           Num(5), Num(110), Num(60), "JFK", "LAX", 1)

\* A day flight whose stored fields agree with its times.
CleanRow ==
    RawRow(Num(0), Num(1000), Num(1003), Num(1200), Num(1210),
           Num(3), Num(10), Num(127), "LAX", "JFK", 2)

\* The local-arrival example: arrival 2023-06-01T10:00 (day 151), origin
\* offset -5, destination offset -8.
LocalExampleRow ==
    RawRow(Num(151), Num(600), Num(605), Num(955), Num(1000),
           Num(5), Num(5), Num(235), "JFK", "LAX", 4)

BatchRows ==
    { ScenarioRow,
      CleanRow,
      LocalExampleRow,
      \* same flight, stored air_time off by more than the tolerance
      [CleanRow EXCEPT !.air_time = Num(90)],
      \* a missing value: actual departure / calendar date
      [CleanRow EXCEPT !.dep_time = Null],
      [CleanRow EXCEPT !.ymd = Null],
      \* a packed time that is not a number
      [CleanRow EXCEPT !.arr_time = Str],
      \* airports without an offset in the mapping / absent from airports.csv
      [CleanRow EXCEPT !.dest = "DEL"],
      [CleanRow EXCEPT !.origin = "ZZZ", !.arr_time = Num(900)],
      \* scheduled arrival not after scheduled departure
      [CleanRow EXCEPT !.sched_arr_time = Num(1000)],
      \* arrival before departure, stored delay too small to repair it
      RawRow(Num(1), Num(1000), Num(1200), Num(1100), Num(1130),
             Num(0), Num(30), Num(45), "JFK", "JFK", 3) }

SchedDeps == {1000, 1800, 2300}
Deps == {230, 600, 1003, 2305, 2500}
SchedArrs == {200, 600, 1100, 2600}
Arrs == {350, 600, 1130, 2650}
DepDelays == {0, 1, 5, 6}
ArrDelays == {27, 28, 32, 33}
AirTimes == {60, 81, 82, 92, 93}

RichRows ==
    { RawRow(Num(0), Num(sd), Num(d), Num(sa), Num(a), Num(dd), Num(ad), Num(at),
             "JFK", "LAX", 1) :
        sd \in SchedDeps, d \in Deps, sa \in SchedArrs, a \in Arrs,
        dd \in DepDelays, ad \in ArrDelays, at \in AirTimes }

RECURSIVE SeqsUpTo(_, _)
SeqsUpTo(S, n) ==
    IF n = 0 THEN {<<>>}
    ELSE LET shorter == SeqsUpTo(S, n - 1)
         IN shorter \cup {Append(q, x) : q \in shorter, x \in S}

----------------------------------------------------------------------------
(* clean_flights_data, statement by statement *)

Goto(label) == pc' = label

\* flights = pd.read_sql_query("SELECT * FROM flights", conn)
ReadSql ==
    /\ pc = "start"
    /\ flights' = table
    /\ prev' = flights
    /\ Goto("read")
    /\ UNCHANGED <<table, pass, verbose, report>>
    /\ UNCHANGED <<cmvars, fnvars>>

\* flights = flights.dropna()
DropNa ==
    /\ pc = "read"
    /\ flights' = SelectSeq(flights, HasNoNull)
    /\ prev' = flights
    /\ Goto("dropna")
    /\ UNCHANGED <<table, pass, verbose, report>>
    /\ UNCHANGED <<cmvars, fnvars>>

\* flights = flights.drop_duplicates()
DropDuplicates ==
    /\ pc = "dropna"
    /\ flights' = DropDup(flights)
    /\ prev' = flights
    /\ Goto("dedup")
    /\ UNCHANGED <<table, pass, verbose, report>>
    /\ UNCHANGED <<cmvars, fnvars>>

\* flights = convert_times_to_datetime(flights)
ConvertTimes ==
    /\ pc = "dedup"
    /\ flights' = [i \in DOMAIN flights |-> DateRow(flights[i])]
    /\ prev' = flights
    /\ Goto("dated")
    /\ UNCHANGED <<table, pass, verbose, report>>
    /\ UNCHANGED <<cmvars, fnvars>>

\* if verbose: the deleted-rows and duplicates report; both lengths are
\* taken from the frame as it is now, and the division raises on no rows
Report ==
    /\ pc = "dated"
    /\ IF ~verbose
       THEN Goto("reported") /\ UNCHANGED report
       ELSE IF Len(flights) = 0
            THEN Goto("raised") /\ UNCHANGED report
            ELSE /\ Goto("reported")
                 /\ report' = [report EXCEPT
                        !.total_rows = Num(Len(flights)),
                        !.deleted_rows = Num(Len(flights) - Len(flights)),
                        !.duplicates = Num(CountDuplicated(flights))]
    /\ UNCHANGED <<table, flights, prev, pass, verbose>>
    /\ UNCHANGED <<cmvars, fnvars>>

\* the loop over the four time columns.  The sum date + column needs a
\* timedelta column: apply() on no rows keeps the stored dtype and on a
\* column of NaT only infers a datetime dtype, where the sum raises
\* TypeError in the pandas builds that infer so.
DecodeTimes ==
    /\ pc = "reported"
    /\ \/ /\ flights' = [i \in DOMAIN flights |-> DecodeRow(flights[i])]
          /\ prev' = flights
          /\ Goto("decoded")
       \/ /\ \/ Len(flights) = 0
             \/ \E c \in TimeCols : AllNaT(flights, c)
          /\ Goto("raised")
          /\ UNCHANGED <<flights, prev>>
    /\ UNCHANGED <<table, pass, verbose, report>>
    /\ UNCHANGED <<cmvars, fnvars>>

\* Overnight Flights adjustments
RolloverDep ==
    /\ pc = "decoded"
    /\ flights' = [i \in DOMAIN flights |-> RolloverDepRow(flights[i])]
    /\ prev' = flights
    /\ Goto("rolled_dep")
    /\ UNCHANGED <<table, pass, verbose, report>>
    /\ UNCHANGED <<cmvars, fnvars>>

RolloverSchedArr ==
    /\ pc = "rolled_dep"
    /\ flights' = [i \in DOMAIN flights |-> RolloverSchedArrRow(flights[i])]
    /\ prev' = flights
    /\ Goto("rolled_sched_arr")
    /\ UNCHANGED <<table, pass, verbose, report>>
    /\ UNCHANGED <<cmvars, fnvars>>

RolloverArr ==
    /\ pc = "rolled_sched_arr"
    /\ flights' = [i \in DOMAIN flights |-> RolloverArrRow(flights[i])]
    /\ prev' = flights
    /\ Goto("rolled_arr")
    /\ UNCHANGED <<table, pass, verbose, report>>
    /\ UNCHANGED <<cmvars, fnvars>>

\* a filter by time of day, which ignores the day added by rollover
FilterSchedByClock ==
    /\ pc = "rolled_arr"
    /\ flights' = SelectSeq(flights, LAMBDA r :
                      /\ r.sched_arr_time.k = "ts"
                      /\ r.sched_dep_time.k = "ts"
                      /\ r.sched_arr_time.v % MinutesPerDay >
                             r.sched_dep_time.v % MinutesPerDay)
    /\ prev' = flights
    /\ Goto("filtered")
    /\ UNCHANGED <<table, pass, verbose, report>>
    /\ UNCHANGED <<cmvars, fnvars>>

\* pd.to_datetime(..., errors='coerce') leaves datetime columns as they
\* are; then: Filter out inconsistent scheduled times
FilterSched ==
    /\ pc = "rolled_arr"
    /\ flights' = SelectSeq(flights, SchedPairOk)
    /\ prev' = flights
    /\ Goto("filtered")
    /\ UNCHANGED <<table, pass, verbose, report>>
    /\ UNCHANGED <<cmvars, fnvars>>

\* a repair that also moves the scheduled arrival to the repaired arrival
FixAllMovingSchedule ==
    /\ pc = "filtered"
    /\ flights' = [i \in DOMAIN flights |->
                      [fix_flight_data(flights[i]) EXCEPT
                          !.sched_arr_time = fix_flight_data(flights[i]).arr_time]]
    /\ prev' = flights
    /\ Goto("fixed")
    /\ UNCHANGED <<table, pass, verbose, report>>
    /\ UNCHANGED <<cmvars, fnvars>>

\* flights = flights.apply(fix_flight_data, axis=1)
FixAll ==
    /\ pc = "filtered"
    /\ flights' = FixFrame(flights)
    /\ prev' = flights
    /\ Goto("fixed")
    /\ UNCHANGED <<table, pass, verbose, report>>
    /\ UNCHANGED <<cmvars, fnvars>>

\* flights['is_consistent'] = flights.apply(check_flight_consistency, axis=1)
\* and the verbose percentage.  On no rows apply() returns a frame, which
\* the pandas builds that check the shape refuse to assign to one column.
CheckAll ==
    /\ pc = "fixed"
    /\ \/ /\ flights' = [i \in DOMAIN flights |-> FlagRow(flights[i])]
          /\ prev' = flights
          /\ Goto("checked")
          /\ report' = IF verbose
                       THEN [report EXCEPT !.inconsistent =
                                Num(CountInconsistent(flights'))]
                       ELSE report
       \/ /\ Len(flights) = 0
          /\ Goto("raised")
          /\ UNCHANGED <<flights, prev, report>>
    /\ UNCHANGED <<table, pass, verbose>>
    /\ UNCHANGED <<cmvars, fnvars>>

\* Local arrival time adjustment
LocalTime ==
    /\ pc = "checked"
    /\ flights' = [i \in DOMAIN SelectSeq(flights, HasOffsets) |->
                        LocalArrRow(SelectSeq(flights, HasOffsets)[i])]
    /\ prev' = flights
    /\ Goto("local")
    /\ UNCHANGED <<table, pass, verbose, report>>
    /\ UNCHANGED <<cmvars, fnvars>>

\* Prepare the final cleaned DataFrame: drop is_consistent, return flights
Finalize ==
    /\ pc = "local"
    /\ flights' = [i \in DOMAIN flights |-> DropFlagRow(flights[i])]
    /\ prev' = flights
    /\ Goto("done")
    /\ UNCHANGED <<table, pass, verbose, report>>
    /\ UNCHANGED <<cmvars, fnvars>>

\* cleaned_flights.to_sql('flights', conn, if_exists='replace'), after which
\* the connection serves the cleaned table to whatever reads it next
ToSql ==
    /\ pc = "done"
    /\ pass < MaxPass
    /\ table' = flights
    /\ pass' = pass + 1
    /\ Goto("start")
    /\ flights' = <<>>
    /\ prev' = <<>>
    /\ report' = NoReport
    /\ UNCHANGED verbose
    /\ UNCHANGED <<cmvars, fnvars>>

Next ==
    \/ ReadSql
    \/ DropNa
    \/ DropDuplicates
    \/ ConvertTimes
    \/ Report
    \/ DecodeTimes
    \/ RolloverDep
    \/ RolloverSchedArr
    \/ RolloverArr
    \/ FilterSched
    \/ FixAll
    \/ CheckAll
    \/ LocalTime
    \/ Finalize
    \/ ToSql

\* nothing called yet in get_db_connection, no function under study
Idle ==
    /\ source = <<>>
    /\ cm = "none"
    /\ conn = "none"
    /\ temp_file = "none"
    /\ exc = "none"

NoCall ==
    /\ fn_in = Absent
    /\ fn_row = Absent
    /\ fn_out = Absent
    /\ fn_pc = "none"

InitCommon ==
    /\ flights = <<>>
    /\ prev = <<>>
    /\ pc = "start"
    /\ pass = 1
    /\ report = NoReport
    /\ Idle
    /\ NoCall

\* batches of a few rows, verbose on or off
Init ==
    /\ InitCommon
    /\ table \in SeqsUpTo(BatchRows, MaxRows)
    /\ verbose \in BOOLEAN

Spec == Init /\ [][Next]_vars

\* packed times around the bounds of the rollover rules: hours 5, 6, 18, 19
\* and minute parts of 60 and more
RollSchedDeps == {600, 1800, 1900, 2300}
RollDeps == {5, 230, 600, 1930, 2305}
RollSchedArrs == {100, 559, 600, 2330}
RollArrs == {30, 350, 600, 2330, 2399}

RollRows ==
    { RawRow(Num(0), Num(sd), Num(d), Num(sa), Num(a), Num(5), Num(10), Num(60),
             "JFK", "LAX", 1) :
        sd \in RollSchedDeps, d \in RollDeps, sa \in RollSchedArrs,
        a \in RollArrs }

\* one row at a time, over the clock times the rollover rules test
InitRoll ==
    /\ InitCommon
    /\ table \in {<<r>> : r \in RollRows}
    /\ verbose = FALSE

SpecRoll == InitRoll /\ [][Next]_vars

\* one row at a time, over a wide range of times and stored values
InitRow ==
    /\ InitCommon
    /\ table \in {<<r>> : r \in RichRows}
    /\ verbose = FALSE

SpecRow == InitRow /\ [][Next]_vars

----------------------------------------------------------------------------
(* utils.get_db_connection: the context manager around the pipeline *)

\* rows of the database file that is copied
ConnRows == {CleanRow, ScenarioRow, [CleanRow EXCEPT !.arr_time = Str]}

\* temp_db_file = tempfile.NamedTemporaryFile(suffix=".db", delete=False)
\* temp_db_file.close()
CmCreateTemp ==
    /\ cm = "none"
    /\ temp_file' = "exists"
    /\ cm' = "temp"
    /\ UNCHANGED <<source, conn, exc>>
    /\ UNCHANGED <<pipevars, fnvars>>

\* shutil.copy(db_path, temp_db_file.name)
CmCopy ==
    /\ cm = "temp"
    /\ table' = source
    /\ cm' = "copied"
    /\ UNCHANGED <<source, conn, temp_file, exc>>
    /\ UNCHANGED <<flights, prev, pc, pass, verbose, report>>
    /\ UNCHANGED fnvars

\* conn = sqlite3.connect(temp_db_file.name, check_same_thread=False)
\* try: cleaned_flights = clean_flights_data(conn, verbose=False)
CmConnect ==
    /\ cm = "copied"
    /\ conn' = "open"
    /\ cm' = "cleaning"
    /\ Goto("start")
    /\ UNCHANGED <<source, temp_file, exc>>
    /\ UNCHANGED <<table, flights, prev, pass, verbose, report>>
    /\ UNCHANGED fnvars

\* a to_sql that writes the flights table of the database file itself
CmToSqlInPlace ==
    /\ cm = "cleaning"
    /\ pc = "done"
    /\ \/ /\ source' = flights
          /\ table' = flights
          /\ cm' = "yielded"
          /\ Goto("returned")
          /\ UNCHANGED exc
       \/ /\ cm' = "finally"
          /\ exc' = "raised"
          /\ UNCHANGED <<source, table, pc>>
    /\ UNCHANGED <<conn, temp_file>>
    /\ UNCHANGED <<flights, prev, pass, verbose, report>>
    /\ UNCHANGED fnvars

\* cleaned_flights.to_sql('flights', conn, if_exists='replace', index=False)
\* then yield conn; a failed write leaves the try block with the exception
CmToSql ==
    /\ cm = "cleaning"
    /\ pc = "done"
    /\ \/ /\ table' = flights
          /\ cm' = "yielded"
          /\ Goto("returned")
          /\ UNCHANGED exc
       \/ /\ cm' = "finally"
          /\ exc' = "raised"
          /\ UNCHANGED <<table, pc>>
    /\ UNCHANGED <<source, conn, temp_file>>
    /\ UNCHANGED <<flights, prev, pass, verbose, report>>
    /\ UNCHANGED fnvars

\* an exception of clean_flights_data that skips the finally block
CmCleanRaisedLeak ==
    /\ cm = "cleaning"
    /\ pc = "raised"
    /\ cm' = "exit"
    /\ exc' = "raised"
    /\ UNCHANGED <<source, conn, temp_file>>
    /\ UNCHANGED <<pipevars, fnvars>>

\* an exception of clean_flights_data leaves the try block
CmCleanRaised ==
    /\ cm = "cleaning"
    /\ pc = "raised"
    /\ cm' = "finally"
    /\ exc' = "raised"
    /\ UNCHANGED <<source, conn, temp_file>>
    /\ UNCHANGED <<pipevars, fnvars>>

\* the with-body ends: the generator is resumed after the yield
BodyReturn ==
    /\ cm = "yielded"
    /\ cm' = "finally"
    /\ UNCHANGED <<source, conn, temp_file, exc>>
    /\ UNCHANGED <<pipevars, fnvars>>

\* the with-body raises: the exception is thrown into the generator at the
\* yield
BodyRaise ==
    /\ cm = "yielded"
    /\ cm' = "finally"
    /\ exc' = "raised"
    /\ UNCHANGED <<source, conn, temp_file>>
    /\ UNCHANGED <<pipevars, fnvars>>

\* finally: conn.close()
CmClose ==
    /\ cm = "finally"
    /\ conn' = "closed"
    /\ cm' = "closed"
    /\ UNCHANGED <<source, temp_file, exc>>
    /\ UNCHANGED <<pipevars, fnvars>>

\* os.remove(temp_db_file.name)
CmRemove ==
    /\ cm = "closed"
    /\ temp_file' = "removed"
    /\ cm' = "exit"
    /\ UNCHANGED <<source, conn, exc>>
    /\ UNCHANGED <<pipevars, fnvars>>

NextConn ==
    \/ CmCreateTemp
    \/ CmCopy
    \/ CmConnect
    \/ ReadSql
    \/ DropNa
    \/ DropDuplicates
    \/ ConvertTimes
    \/ Report
    \/ DecodeTimes
    \/ RolloverDep
    \/ RolloverSchedArr
    \/ RolloverArr
    \/ FilterSched
    \/ FixAll
    \/ CheckAll
    \/ LocalTime
    \/ Finalize
    \/ CmToSql
    \/ CmCleanRaised
    \/ BodyReturn
    \/ BodyRaise
    \/ CmClose
    \/ CmRemove

\* get_db_connection is entered on a database file of a few rows
InitConn ==
    /\ table = <<>>
    /\ flights = <<>>
    /\ prev = <<>>
    /\ pc = "idle"
    /\ pass = 1
    /\ verbose = FALSE
    /\ report = NoReport
    /\ source \in SeqsUpTo(ConnRows, MaxRows)
    /\ cm = "none"
    /\ conn = "none"
    /\ temp_file = "none"
    /\ exc = "none"
    /\ NoCall

SpecConn == InitConn /\ [][NextConn]_vars

\* every statement of the generator, of the pipeline and of the with-body
\* terminates, so a step that can be taken is taken
FairSpecConn == SpecConn /\ WF_vars(NextConn)

----------------------------------------------------------------------------
(* check_flight_consistency called on one decoded row *)

CheckSchedDeps == {Ts(600)}
CheckDeps == {Ts(603), Ts(700)}
CheckSchedArrs == {Ts(590), Ts(600), Ts(720)}
CheckArrs == {Ts(600), Ts(603), Ts(690), Ts(2040), Null}
CheckAirTimes == {Num(81), Num(82), Num(87), Num(92), Num(93)}

\* rows as they stand after decoding: timestamps, NaT where the packed
\* time did not decode
CheckRows ==
    {[RawRow(Num(0), sd, d, sa, a, Num(3), Num(10), at, "LAX", "JFK", 2)
         EXCEPT !.date = Ts(0)] :
        sd \in CheckSchedDeps, d \in CheckDeps, sa \in CheckSchedArrs,
        a \in CheckArrs, at \in CheckAirTimes}

\* check_flight_consistency(row): the row is read, the result returned
CallCheck ==
    /\ fn_pc = "called"
    /\ fn_out' = Bool(check_flight_consistency(fn_row))
    /\ fn_row' = fn_row
    /\ fn_pc' = "returned"
    /\ UNCHANGED fn_in
    /\ UNCHANGED <<pipevars, cmvars>>

NextCheck == CallCheck

InitCheck ==
    /\ table = <<>>
    /\ flights = <<>>
    /\ prev = <<>>
    /\ pc = "idle"
    /\ pass = 1
    /\ verbose = FALSE
    /\ report = NoReport
    /\ Idle
    /\ fn_in \in CheckRows
    /\ fn_row = fn_in
    /\ fn_out = Absent
    /\ fn_pc = "called"

SpecCheck == InitCheck /\ [][NextCheck]_vars

----------------------------------------------------------------------------
(* time_to_timedelta called on one stored value *)

\* largest packed time given to the decoder
MaxPacked == 2459

\* the empty string and the text 'NaN', told apart from other text by v
EmptyStr == [k |-> "str", v |-> 1]
NaNStr == [k |-> "str", v |-> 2]

\* stored values: packed numbers, NULL, text that is not a number, and a
\* timestamp left by an earlier run
CodecInputs ==
    {Num(t) : t \in 0..MaxPacked} \cup {Null, Str, EmptyStr, NaNStr, Ts(600)}

\* time_to_timedelta(time)
CallDecode ==
    /\ fn_pc = "called"
    /\ fn_out' = time_to_timedelta(fn_row)
    /\ fn_pc' = "returned"
    /\ UNCHANGED <<fn_in, fn_row>>
    /\ UNCHANGED <<pipevars, cmvars>>

NextCodec == CallDecode

InitCodec ==
    /\ table = <<>>
    /\ flights = <<>>
    /\ prev = <<>>
    /\ pc = "idle"
    /\ pass = 1
    /\ verbose = FALSE
    /\ report = NoReport
    /\ Idle
    /\ fn_in \in CodecInputs
    /\ fn_row = fn_in
    /\ fn_out = Absent
    /\ fn_pc = "called"

SpecCodec == InitCodec /\ [][NextCodec]_vars

----------------------------------------------------------------------------
(* fix_flight_data called on one decoded row, and again on its result *)

FixDeps == {Ts(1383), Ts(1530)}
FixArrs == {Ts(230), Ts(1670)}
FixDepDelays == {Num(3), Num(5), Num(150)}
FixArrDelays == {Num(5), Num(110), Num(-1330)}
FixAirTimes == {Num(35), Num(60), Num(140)}

\* rows after decoding and rollover: scheduled 23:00 -> 02:00 next day
FixRows ==
    {[RawRow(Num(0), Ts(1380), d, Ts(1560), a, dd, ad, at, "JFK", "LAX", 1)
         EXCEPT !.date = Ts(0)] :
        d \in FixDeps, a \in FixArrs, dd \in FixDepDelays,
        ad \in FixArrDelays, at \in FixAirTimes}

\* row = fix_flight_data(row); the first result is kept in fn_out
FixOnce ==
    /\ fn_pc = "called"
    /\ fn_row' = fix_flight_data(fn_row)
    /\ fn_out' = fix_flight_data(fn_row)
    /\ fn_pc' = "once"
    /\ UNCHANGED fn_in
    /\ UNCHANGED <<pipevars, cmvars>>

\* row = fix_flight_data(row) on the repaired row
FixTwice ==
    /\ fn_pc = "once"
    /\ fn_row' = fix_flight_data(fn_row)
    /\ fn_pc' = "twice"
    /\ UNCHANGED <<fn_in, fn_out>>
    /\ UNCHANGED <<pipevars, cmvars>>

NextFix ==
    \/ FixOnce
    \/ FixTwice

InitFix ==
    /\ table = <<>>
    /\ flights = <<>>
    /\ prev = <<>>
    /\ pc = "idle"
    /\ pass = 1
    /\ verbose = FALSE
    /\ report = NoReport
    /\ Idle
    /\ fn_in \in FixRows
    /\ fn_row = fn_in
    /\ fn_out = Absent
    /\ fn_pc = "called"

SpecFix == InitFix /\ [][NextFix]_vars

----------------------------------------------------------------------------
(* The three rollover statements applied to one decoded row, in any order,
   and then once more in the order of the code *)

\* fn_out lists the rules applied so far
Applied(n) == \E i \in DOMAIN fn_out : fn_out[i] = n

RuleStep(n, row) ==
    /\ fn_pc = "rolling"
    /\ ~Applied(n)
    /\ fn_row' = row
    /\ fn_out' = Append(fn_out, n)
    /\ fn_pc' = IF Len(fn_out) = 2 THEN "rolled" ELSE "rolling"
    /\ UNCHANGED fn_in
    /\ UNCHANGED <<pipevars, cmvars>>

\* flights.loc[..., 'dep_time'] += timedelta(days=1)
ApplyRule1 == RuleStep(1, RolloverDepRow(fn_row))

\* flights.loc[..., 'sched_arr_time'] += timedelta(days=1)
ApplyRule2 == RuleStep(2, RolloverSchedArrRow(fn_row))

\* flights.loc[..., 'arr_time'] += timedelta(days=1)
ApplyRule3 == RuleStep(3, RolloverArrRow(fn_row))

\* the three statements in the order of the code
Corrector(r) == RolloverArrRow(RolloverSchedArrRow(RolloverDepRow(r)))

\* the three statements run again over the corrected row
RollAgain ==
    /\ fn_pc = "rolled"
    /\ fn_row' = Corrector(fn_row)
    /\ fn_pc' = "again"
    /\ UNCHANGED <<fn_in, fn_out>>
    /\ UNCHANGED <<pipevars, cmvars>>

NextOrder ==
    \/ ApplyRule1
    \/ ApplyRule2
    \/ ApplyRule3
    \/ RollAgain

InitOrder ==
    /\ table = <<>>
    /\ flights = <<>>
    /\ prev = <<>>
    /\ pc = "idle"
    /\ pass = 1
    /\ verbose = FALSE
    /\ report = NoReport
    /\ Idle
    /\ fn_in \in {DecodeRow(DateRow(r)) : r \in RollRows}
    /\ fn_row = fn_in
    /\ fn_out = <<>>
    /\ fn_pc = "rolling"

SpecOrder == InitOrder /\ [][NextOrder]_vars

----------------------------------------------------------------------------
(* utils.execute_query without a connection of the caller: the statement
   runs inside `with get_db_connection(db_path) as conn` *)

\* cursor.execute(query, params or ()); conn.commit(): a statement that
\* writes (here: empties the flights table) or only reads
QueryExecute ==
    /\ cm = "yielded"
    /\ table' \in {table, <<>>}
    /\ cm' = "executed"
    /\ UNCHANGED <<source, conn, temp_file, exc>>
    /\ UNCHANGED <<flights, prev, pc, pass, verbose, report>>
    /\ UNCHANGED fnvars

\* return cursor.fetchall() / fetchone() / None: the with block is left
QueryReturn ==
    /\ cm = "executed"
    /\ cm' = "finally"
    /\ UNCHANGED <<source, conn, temp_file, exc>>
    /\ UNCHANGED <<pipevars, fnvars>>

NextQuery ==
    \/ NextConn
    \/ QueryExecute
    \/ QueryReturn

SpecQuery == InitConn /\ [][NextQuery]_vars

----------------------------------------------------------------------------
(* Properties *)

Repaired == pc \in {"fixed", "checked", "local", "done"}

\* hour of day of an instant given in minutes
HourOf(m) == (m % MinutesPerDay) \div 60

BothTs(a, b) == a.k = "ts" /\ b.k = "ts"

\* C1: every record that leaves the repair step with actual departure and
\* actual arrival present has actual_arrival > actual_departure.
C1_ArrivalAfterDeparture ==
    Repaired =>
        \A i \in DOMAIN flights :
            BothTs(flights[i].arr_time, flights[i].dep_time)
                => flights[i].arr_time.v > flights[i].dep_time.v

\* C2: from the scheduled-pair filter on, and so in the emitted batch, every
\* record has scheduled_arrival > scheduled_departure.
C2_ScheduledPairOrdered ==
    (pc \in {"filtered", "fixed", "checked", "local", "done"}) =>
        \A i \in DOMAIN flights :
            /\ BothTs(flights[i].sched_arr_time, flights[i].sched_dep_time)
            /\ flights[i].sched_arr_time.v > flights[i].sched_dep_time.v

\* a batch was emitted although the table held a row whose scheduled
\* arrival clock time equals its scheduled departure clock time
C2_Witness ==
    /\ pc = "done"
    /\ pass = 1
    /\ Len(flights) > 0
    /\ \E i \in DOMAIN table :
          /\ HasNoNull(table[i])
          /\ table[i].sched_arr_time = table[i].sched_dep_time

\* C3: a second run of the pipeline, on the table the first run emitted
\* (here: one with a record in it and no missing value), ends normally with
\* a table field-identical to that one.
C3_Idempotent ==
    (/\ pass = 2
     /\ Len(table) > 0
     /\ \A i \in DOMAIN table : HasNoNull(table[i])
     /\ pc \in {"done", "raised"})
        => (pc = "done" /\ flights = table)

IsScenario(r) ==
    /\ r.ymd = Num(0)
    /\ r.sched_dep_time = Num(2300)
    /\ r.dep_time = Num(130)
    /\ r.sched_arr_time = Num(200)
    /\ r.arr_time = Num(350)
    /\ r.dep_delay = Num(5)
    /\ r.air_time = Num(60)

ScenarioChecked ==
    /\ pass = 1
    /\ pc = "checked"
    /\ Len(table) = 1
    /\ IsScenario(table[1])

C5_FlagEmitted ==
    pc = "done" =>
        \A i \in DOMAIN flights :
            flights[i].is_consistent = Bool(check_flight_consistency(flights[i]))

\* C6: the local-time stage keeps every record; one whose origin or
\* destination has no offset keeps its fields and has no local arrival.
C6_UnresolvedKept ==
    pc = "local" =>
        /\ Len(flights) = Len(prev)
        /\ \A i \in DOMAIN prev :
              ~HasOffsets(prev[i]) =>
                  /\ flights[i].local_arr_time \in {Absent, Null}
                  /\ [flights[i] EXCEPT !.local_arr_time = Absent,
                                        !.dep_offset = Absent,
                                        !.arr_offset = Absent] = prev[i]

\* whole hours of the offset airports.csv gives for an airport
OffsetHours(code) == Airports[code].v \div 2

\* C7: a record of the local-time stage's output is a repaired record with
\* local_arrival = actual_arrival - origin offset + destination offset (in
\* hours); 2023-06-01T10:00 from offset -5 to offset -8 gives 07:00.
C7_LocalArrival ==
    pc = "local" =>
        \A i \in DOMAIN flights :
            /\ \E j \in DOMAIN prev :
                  /\ prev[j].flight = flights[i].flight
                  /\ prev[j].arr_time = flights[i].arr_time
            /\ flights[i].arr_time.k = "ts" =>
                  /\ flights[i].local_arr_time.k = "ts"
                  /\ flights[i].local_arr_time.v =
                        flights[i].arr_time.v
                        - 60 * OffsetHours(flights[i].origin)
                        + 60 * OffsetHours(flights[i].dest)
            /\ (/\ flights[i].arr_time = Ts(151 * MinutesPerDay + 600)
                /\ OffsetHours(flights[i].origin) = -5
                /\ OffsetHours(flights[i].dest) = -8)
                  => flights[i].local_arr_time = Ts(151 * MinutesPerDay + 420)

C7_Witness ==
    /\ pc = "local"
    /\ \E i \in DOMAIN flights :
          /\ flights[i].arr_time = Ts(151 * MinutesPerDay + 600)
          /\ flights[i].origin = "JFK"
          /\ flights[i].dest = "LAX"
          /\ flights[i].local_arr_time = Ts(151 * MinutesPerDay + 420)

TwoDays == 2 * MinutesPerDay

\* stored value s is kept when it differs from the derived value d by at
\* most tol, and replaced by d when it differs by tol + 1 or more
Boundary(s, d, tol, after) ==
    (Abs(s) <= TwoDays /\ Abs(d) <= TwoDays) =>
        /\ Abs(s - d) <= tol => after = Num(s)
        /\ Abs(s - d) >= tol + 1 => after = Num(d)

\* C8: the repair step keeps a stored air_time that is 5 minutes or less
\* from arrival - departure and overwrites it from 6 minutes on; it keeps
\* a stored departure / arrival delay that is 2 minutes or less from the
\* delay it derives and overwrites it from 3 minutes on.
C8_ToleranceBoundary ==
    pc = "fixed" =>
        /\ Len(flights) = Len(prev)
        /\ \A i \in DOMAIN prev :
              LET pre == prev[i]
                  post == flights[i]
              IN /\ BothTs(pre.dep_time, pre.sched_dep_time) =>
                      Boundary(pre.dep_delay.v,
                               pre.dep_time.v - pre.sched_dep_time.v,
                               2, post.dep_delay)
                 /\ BothTs(post.arr_time, post.dep_time) =>
                      Boundary(pre.air_time.v,
                               post.arr_time.v - post.dep_time.v,
                               5, post.air_time)
                 /\ BothTs(pre.arr_time, pre.sched_arr_time) =>
                      Boundary(pre.arr_delay.v,
                               pre.arr_time.v - pre.sched_arr_time.v,
                               2, post.arr_delay)

\* a record repaired with air_time exactly 5 off (kept), departure delay
\* exactly 3 off (overwritten) and arrival delay exactly 2 off (kept)
C8_Witness ==
    /\ pc = "fixed"
    /\ \E i \in DOMAIN prev :
          LET pre == prev[i]
              post == flights[i]
          IN /\ Abs(pre.air_time.v - (post.arr_time.v - post.dep_time.v)) = 5
             /\ post.air_time = pre.air_time
             /\ Abs(pre.dep_delay.v - (pre.dep_time.v - pre.sched_dep_time.v)) = 3
             /\ post.dep_delay = Num(pre.dep_time.v - pre.sched_dep_time.v)
             /\ Abs(pre.arr_delay.v - (pre.arr_time.v - pre.sched_arr_time.v)) = 2
             /\ post.arr_delay = pre.arr_delay

\* target t, paired timestamp p: the three guards of a rollover rule
Guards(t, p) ==
    /\ BothTs(t, p)
    /\ HourOf(t.v) < 6
    /\ HourOf(p.v) > 18
    /\ t.v < p.v

Advanced(t, g) == IF g THEN Ts(t.v + MinutesPerDay) ELSE t

\* C9: each rollover rule advances its target by one day exactly when its
\* three guards hold on the frame it runs on, and changes nothing else.
C9_RolloverGuards ==
    /\ pc = "rolled_dep" =>
          /\ Len(flights) = Len(prev)
          /\ \A i \in DOMAIN prev :
                flights[i] = [prev[i] EXCEPT !.dep_time =
                    Advanced(@, Guards(@, prev[i].sched_dep_time))]
    /\ pc = "rolled_sched_arr" =>
          /\ Len(flights) = Len(prev)
          /\ \A i \in DOMAIN prev :
                flights[i] = [prev[i] EXCEPT !.sched_arr_time =
                    Advanced(@, Guards(@, prev[i].sched_dep_time))]
    /\ pc = "rolled_arr" =>
          /\ Len(flights) = Len(prev)
          /\ \A i \in DOMAIN prev :
                flights[i] = [prev[i] EXCEPT !.arr_time =
                    Advanced(@, Guards(@, prev[i].dep_time))]

\* actual departure 02:30 against scheduled departure 23:00 of the same
\* date was advanced by one day
C9_Witness ==
    /\ pc = "rolled_dep"
    /\ \E i \in DOMAIN prev :
          /\ prev[i].dep_time = Ts(150)
          /\ prev[i].sched_dep_time = Ts(1380)
          /\ flights[i].dep_time = Ts(150 + MinutesPerDay)

\* C10: after the repair step the stored arrival_delay is within 2 minutes
\* of actual_arrival - scheduled_arrival taken from the record's final
\* timestamps.
C10_ArrDelayMatchesFinal ==
    pc = "fixed" =>
        \A i \in DOMAIN flights :
            BothTs(flights[i].arr_time, flights[i].sched_arr_time) =>
                /\ flights[i].arr_delay.k = "num"
                /\ Abs(flights[i].arr_delay.v
                       - (flights[i].arr_time.v - flights[i].sched_arr_time.v)) <= 2

\* C11: a record that leaves the repair step with both actual timestamps
\* present has air_time within 5 minutes of arrival - departure, taken
\* from its final timestamps, and departure_delay within 2 minutes of
\* actual departure - scheduled departure.
C11_DerivedFieldsMatch ==
    Repaired =>
        \A i \in DOMAIN flights :
            BothTs(flights[i].arr_time, flights[i].dep_time) =>
                /\ flights[i].air_time.k = "num"
                /\ Abs(flights[i].air_time.v
                       - (flights[i].arr_time.v - flights[i].dep_time.v)) <= 5
                /\ flights[i].dep_delay.k = "num"
                /\ Abs(flights[i].dep_delay.v
                       - (flights[i].dep_time.v - flights[i].sched_dep_time.v)) <= 2

\* a record whose arrival, air_time and departure delay were all rewritten
C11_Witness ==
    /\ pc = "fixed"
    /\ \E i \in DOMAIN prev :
          /\ BothTs(flights[i].arr_time, flights[i].dep_time)
          /\ flights[i].arr_time # prev[i].arr_time
          /\ flights[i].air_time # prev[i].air_time
          /\ flights[i].dep_delay # prev[i].dep_delay

\* C12: no emitted record lacks its calendar date, and the verbose report
\* gives the rows removed by dropna over the rows read (as deleted and total
\* counts) and the number of rows removed by drop_duplicates.
C12_DroppedRowReport ==
    /\ pc = "done" => \A i \in DOMAIN flights : flights[i].ymd.k = "num"
    /\ (pass = 1 /\ verbose /\ pc = "reported") =>
          /\ report.total_rows = Num(Len(table))
          /\ report.deleted_rows =
                Num(Len(table) - Len(SelectSeq(table, HasNoNull)))
          /\ report.duplicates =
                Num(CountDuplicated(SelectSeq(table, HasNoNull)))

AfterDedup ==
    pc \in {"dedup", "dated", "reported", "decoded", "rolled_dep",
            "rolled_sched_arr", "rolled_arr", "filtered", "fixed", "checked",
            "local", "done"}

\* C13: field-identical input rows collapse to one: after drop_duplicates
\* the frame holds every row of the frame before it exactly once, and from
\* then on it never holds more records than the table has distinct rows.
C13_DuplicatesCollapse ==
    /\ pc = "dedup" =>
          /\ Range(flights) = Range(prev)
          /\ Len(flights) = Cardinality(Range(flights))
    /\ AfterDedup => Len(flights) <= Cardinality(Range(table))

\* two identical rows were read and one record was emitted
C13_Witness ==
    /\ pc = "done"
    /\ pass = 1
    /\ Len(table) = 2
    /\ table[1] = table[2]
    /\ Len(flights) = 1

\* every time column of the table has a packed number in a complete row
EveryColumnDecodes ==
    \A c \in TimeCols :
        \E i \in DOMAIN table :
            HasNoNull(table[i]) /\ NotNull(time_to_timedelta(table[i][c]))

\* C14: every record that reaches the repair step, and every emitted
\* record, has its four timestamps resolved (here for the first run on a
\* table each of whose time columns decodes for some row).
C14_TimestampsResolved ==
    (/\ pass = 1
     /\ EveryColumnDecodes
     /\ pc \in {"filtered", "fixed", "checked", "local", "done"}) =>
        \A i \in DOMAIN flights :
            \A c \in TimeCols : flights[i][c].k = "ts"

\* C15: the pipeline never raises; here for the verbose first run on a
\* batch that is empty or whose every record has a missing value.
C15_RunsToCompletion ==
    (/\ verbose
     /\ pass = 1
     /\ SelectSeq(table, HasNoNull) = <<>>) => pc # "raised"

\* the frame in the opposite order
Reversed(f) == [i \in DOMAIN f |-> f[Len(f) + 1 - i]]

\* the records of prev that the local-time stage keeps
Kept == SelectSeq(prev, HasOffsets)

C17_ResourcesReleased ==
    /\ [](temp_file = "removed" => conn = "closed")
    /\ [](cm = "exit" => conn = "closed" /\ temp_file = "removed")
    /\ [][temp_file' # temp_file /\ temp_file' = "removed" => conn = "closed"]_vars
    /\ (conn = "open") ~> (conn = "closed" /\ temp_file = "removed")

C17_Witness ==
    /\ cm = "exit"
    /\ exc = "raised"
    /\ pc = "raised"
    /\ conn = "closed"
    /\ temp_file = "removed"

\* C18: when the arrival is not after the departure, repair replaces the
\* arrival by the scheduled arrival plus the departure delay as it stands
\* after step 1 of the repair.
C18_ArrivalFromRepairedDelay ==
    pc = "fixed" =>
        \A i \in DOMAIN prev :
            (/\ BothTs(prev[i].arr_time, prev[i].dep_time)
             /\ TsLe(prev[i].arr_time, prev[i].dep_time)
             /\ prev[i].sched_arr_time.k = "ts"
             /\ flights[i].dep_delay.k = "num") =>
                flights[i].arr_time =
                    AddMinutes(prev[i].sched_arr_time, flights[i].dep_delay)

\* the record with its four derived fields taken from another record
WithDerivedOf(r, q) ==
    [r EXCEPT !.dep_delay = q.dep_delay,
              !.arr_time = q.arr_time,
              !.air_time = q.air_time,
              !.arr_delay = q.arr_delay]

\* C19: repair changes at most dep_delay, arr_time, air_time and arr_delay;
\* the scheduled times, the departure and every other field of the record
\* are as before.
C19_RepairFrame ==
    pc = "fixed" =>
        /\ Len(flights) = Len(prev)
        /\ \A i \in DOMAIN prev : WithDerivedOf(flights[i], prev[i]) = prev[i]

C19_Witness ==
    /\ pc = "fixed"
    /\ \E i \in DOMAIN prev :
          /\ flights[i].dep_delay # prev[i].dep_delay
          /\ flights[i].arr_time # prev[i].arr_time
          /\ flights[i].air_time # prev[i].air_time
          /\ flights[i].arr_delay # prev[i].arr_delay

\* the four timestamps of the row given to the validator are resolved
InResolved == \A c \in TimeCols : fn_in[c].k = "ts"

ArrNotAfterDep == fn_in.arr_time.v <= fn_in.dep_time.v

SchedArrNotAfterSchedDep == fn_in.sched_arr_time.v <= fn_in.sched_dep_time.v

AirTimeOff ==
    Abs((fn_in.arr_time.v - fn_in.dep_time.v) - fn_in.air_time.v) > 5

\* C20: check_flight_consistency returns false exactly when the arrival is
\* not after the departure, or the scheduled arrival is not after the
\* scheduled departure, or the air time is more than 5 minutes off the
\* flown time; it returns true otherwise and leaves the record as it was.
C20_ValidatorPure ==
    fn_pc = "returned" =>
        /\ fn_row = fn_in
        /\ fn_out \in {Bool(TRUE), Bool(FALSE)}
        /\ InResolved =>
              ((fn_out = Bool(FALSE)) <=>
                  (ArrNotAfterDep \/ SchedArrNotAfterSchedDep \/ AirTimeOff))

C20_Witness ==
    /\ fn_pc = "returned"
    /\ InResolved
    /\ fn_out = Bool(FALSE)
    /\ SchedArrNotAfterSchedDep
    /\ ~ArrNotAfterDep
    /\ ~AirTimeOff

\* C21: a repair comparison that needs a missing timestamp is skipped: the
\* stored dep_delay, air_time or arr_delay that depends on the missing
\* timestamp is left as it was.
C21_MissingTimestampSkipped ==
    (pc = "fixed" /\ pass = 1 /\ EveryColumnDecodes) =>
        \A i \in DOMAIN prev :
            /\ IsNull(prev[i].dep_time) =>
                  /\ flights[i].dep_delay = prev[i].dep_delay
                  /\ flights[i].air_time = prev[i].air_time
            /\ IsNull(prev[i].arr_time) =>
                  /\ flights[i].air_time = prev[i].air_time
                  /\ flights[i].arr_delay = prev[i].arr_delay

\* C22: time_to_timedelta gives, for a packed time t = 100*h + m with
\* 0 <= m < 100, the duration of h hours and m minutes, and gives the
\* missing value for NULL, the empty string and text that is not a number.
C22_Decoding ==
    fn_pc = "returned" =>
        /\ fn_in.k = "num" =>
              \E h \in 0..(MaxPacked \div 100 + 1) :
                  \E m \in 0..99 :
                      /\ fn_in.v = 100 * h + m
                      /\ fn_out = Num(60 * h + m)
        /\ fn_in.k \in {"null", "str"} => fn_out = Null

C22_Witness ==
    /\ fn_pc = "returned"
    /\ fn_in = Num(1275)
    /\ fn_out = Num(795)

\* C23: a second pass of fix_flight_data over a repaired record changes
\* none of dep_delay, arr_time, air_time, arr_delay.
C23_RepairIdempotent ==
    fn_pc = "twice" =>
        /\ fn_row.dep_delay = fn_out.dep_delay
        /\ fn_row.arr_time = fn_out.arr_time
        /\ fn_row.air_time = fn_out.air_time
        /\ fn_row.arr_delay = fn_out.arr_delay

\* the four timestamps of a record are present
AllTs(r) == \A c \in TimeCols : r[c].k = "ts"

\* C24: after rollover, filter and repair, a record with its four
\* timestamps present is flagged inconsistent exactly when its arrival is
\* not after its departure: the scheduled pair and the air time of a record
\* that was just repaired always pass.
C24_FlagIsActualOrdering ==
    pc = "checked" =>
        \A i \in DOMAIN flights :
            AllTs(flights[i]) =>
                /\ TsGt(flights[i].sched_arr_time, flights[i].sched_dep_time)
                /\ IsClose(DiffMinutes(flights[i].arr_time, flights[i].dep_time),
                           flights[i].air_time, 5)
                /\ (flights[i].is_consistent = Bool(FALSE)) <=>
                       (flights[i].arr_time.v <= flights[i].dep_time.v)

C24_Witness ==
    /\ pc = "checked"
    /\ \E i \in DOMAIN flights :
          /\ AllTs(flights[i])
          /\ flights[i].is_consistent = Bool(FALSE)
          /\ flights[i].air_time # table[i].air_time

\* the only row of the table as it stands after decoding, before rollover
Decoded == DecodeRow(DateRow(table[1]))

\* first run on a table of one row that is still in the frame
OneRow == pass = 1 /\ Len(table) = 1 /\ Len(flights) = 1

\* rule 1 has advanced the departure of the row of prev
DepAdvanced == prev[1].dep_time = AddDay(Decoded.dep_time)

\* C25 as stated: rules 1 and 3 never both fire on a record, and when rule 1
\* advanced the departure and the stored arrival is below 2400 the record
\* enters repair with arrival <= departure and step 2 overwrites the arrival.
C25_AsClaimed ==
    /\ (OneRow /\ pc = "rolled_arr") =>
          ~(/\ flights[1].dep_time # Decoded.dep_time
            /\ flights[1].arr_time # Decoded.arr_time)
    /\ (OneRow /\ pc = "fixed" /\ DepAdvanced
            /\ table[1].arr_time.k = "num" /\ table[1].arr_time.v < 2400) =>
          /\ TsLe(prev[1].arr_time, prev[1].dep_time)
          /\ flights[1].arr_time =
                AddMinutes(prev[1].sched_arr_time, prev[1].dep_delay)

\* C25: rules 1 and 3 never both fire on a record, and when rule 1 advanced
\* the departure and the stored arrival decodes to less than 24 hours the
\* record enters repair with arrival <= departure and step 2 overwrites the
\* arrival.
C25_DepartureRollover ==
    /\ (OneRow /\ pc = "rolled_arr") =>
          ~(/\ flights[1].dep_time # Decoded.dep_time
            /\ flights[1].arr_time # Decoded.arr_time)
    /\ (OneRow /\ pc = "fixed" /\ DepAdvanced
            /\ table[1].arr_time.k = "num"
            /\ time_to_timedelta(table[1].arr_time).v < MinutesPerDay) =>
          /\ TsLe(prev[1].arr_time, prev[1].dep_time)
          /\ flights[1].arr_time =
                AddMinutes(prev[1].sched_arr_time, prev[1].dep_delay)

C25_Witness ==
    /\ OneRow
    /\ pc = "fixed"
    /\ DepAdvanced
    /\ time_to_timedelta(table[1].arr_time).v < MinutesPerDay
    /\ flights[1].arr_time # prev[1].arr_time

ValidPacked(c) == c.k = "num" /\ c.v >= 0 /\ c.v < 2400 /\ c.v % 100 < 60

\* rule 2 has advanced the scheduled arrival of the row of prev
SchedArrAdvanced == prev[1].sched_arr_time = AddDay(Decoded.sched_arr_time)

\* C27: the filter of the scheduled pair runs on the times after rollover:
\* a record with valid packed times is dropped exactly when its scheduled
\* arrival clock time is not later than its scheduled departure clock time
\* and rule 2 did not fire; a record on which rule 2 fired is kept.
C27_FilterAfterRollover ==
    (/\ pc = "filtered" /\ pass = 1 /\ Len(table) = 1
     /\ ValidPacked(table[1].sched_arr_time)
     /\ ValidPacked(table[1].sched_dep_time)) =>
        /\ (Len(flights) = 0) <=>
              (/\ table[1].sched_arr_time.v <= table[1].sched_dep_time.v
               /\ \/ table[1].sched_arr_time.v \div 100 >= 6
                  \/ table[1].sched_dep_time.v \div 100 <= 18)
        /\ SchedArrAdvanced => Len(flights) = 1

C27_Witness ==
    /\ pc = "filtered"
    /\ pass = 1
    /\ Len(table) = 1
    /\ SchedArrAdvanced
    /\ Len(flights) = 1

\* C28: the emitted batch holds no two records equal in every field.
C28_OutputDistinct ==
    (pc = "done" /\ pass = 1) => Len(flights) = Cardinality(Range(flights))

\* C29: get_db_connection and execute_query never change the source
\* database: the cleaned table replaces the flights table of the temporary
\* copy only, it is in place when the connection is yielded, and a
\* statement run by execute_query changes only the copy, which is removed
\* when the call has returned.
C29_SourceUntouched ==
    /\ [][source' = source]_vars
    /\ [](cm = "yielded" => table = flights /\ pc = "returned")
    /\ [](cm = "exit" => temp_file = "removed")

C29_Witness ==
    /\ cm = "exit"
    /\ pc = "returned"
    /\ source # <<>>
    /\ flights # <<>>
    /\ table = <<>>
    /\ temp_file = "removed"

\* the tz values of the fixed mapping, in half hours as Airports keeps them
MappedTz == {-20, -18, -16, -14, -12, -10, -8, 2, 16}

\* the airport is in airports.csv with a tz value of the fixed mapping
InMapping(code) ==
    /\ code \in DOMAIN Airports
    /\ Airports[code].k = "num"
    /\ Airports[code].v \in MappedTz

\* C30: only airports whose tz value is one of -10, -9, -8, -7, -6, -5, -4,
\* 1, 8 take part in the local-time computation: a record with a local
\* arrival or an offset has both airports in the mapping, and its offsets
\* are the tz values themselves.
C30_OnlyMappedAirports ==
    pc \in {"local", "done"} =>
        \A i \in DOMAIN flights :
            (\/ flights[i].local_arr_time.k = "ts"
             \/ flights[i].dep_offset.k = "num"
             \/ flights[i].arr_offset.k = "num") =>
                /\ InMapping(flights[i].origin)
                /\ InMapping(flights[i].dest)
                /\ 2 * flights[i].dep_offset.v = Airports[flights[i].origin].v
                /\ 2 * flights[i].arr_offset.v = Airports[flights[i].dest].v

C30_Witness ==
    /\ pc = "local"
    /\ \E i \in DOMAIN prev : ~InMapping(prev[i].dest)
    /\ \E i \in DOMAIN flights : flights[i].local_arr_time.k = "ts"
    /\ Len(flights) < Len(prev)

====
